---- MODULE Spec2Model ----
(***************************************************************************)
(* Model of computeSCAN (src/src/algorithms/scan.ts), the SCAN ("elevator")*)
(* disk-scheduling solver.  One call of the function is unfolded into its  *)
(* loop iterations; the inputs of the call are chosen in Init.             *)
(***************************************************************************)
EXTENDS Integers, Sequences, FiniteSets, TLC

\* ------------------------------------------------------------------ bounds
\* longest request list that is enumerated
MaxLen == 3
\* longest request list of the repeated-call and termination specifications
CallLen == 2
\* largest maxCylinder of the repeated-call and termination specifications
CallTrack == 1
\* longest request list of the calls that follow the first call
LaterLen == 1
\* number of successive calls of computeSCAN that are followed
MaxCalls == 3
\* how many of the lowest outcomes of a random draw are enumerated
GenSpread == 4
\* largest number of tokens typed into the requests field
UiMaxTokens == 2
\* largest maxCylinder that is enumerated
MaxTrack == 3

\* ------------------------------------------------------------------ state
VARIABLES
  requests,              \* parameter requests: number[]
  headPos,               \* parameter headPos
  direction,             \* parameter direction: "right" | "left"
  maxCylinder,           \* parameter maxCylinder
  left,                  \* const left: number[]
  right,                 \* const right: number[]
  visited,               \* const visited: number[]
  stepsTriples,          \* const stepsTriples: {from, to, dist}[]
  currentPosition,       \* let currentPosition
  totalOverheadMovement, \* let totalOverheadMovement
  pc,                    \* position inside computeSCAN
  i,                     \* index of the running for..of loop (1-based)
  swept,                 \* TRUE once the body of the boundary `if` has run
  output,                \* the returned ScanOutput (meaningful when pc = "done")
  calls,                 \* number of the computeSCAN call in progress
  firstCall,             \* inputs and result of the first call, once returned
  ui,                    \* React state of DiskScheduling and InputCard
  lastClick,             \* what the last click did, "none" after an edit
  gen                    \* locals of generateRandomValues while it runs

vars == <<requests, headPos, direction, maxCylinder, left, right, visited,
          stepsTriples, currentPosition, totalOverheadMovement, pc, i, swept,
          output, calls, firstCall, ui, lastClick, gen>>

inputs == <<requests, headPos, direction, maxCylinder>>

\* what no statement of computeSCAN touches
outside == <<calls, firstCall, ui, lastClick, gen>>

\* ------------------------------------------------------- pure helper code
\* Math.abs
Abs(x) == IF x < 0 THEN 0 - x ELSE x

\* Math.max / Math.min
Max(a, b) == IF a > b THEN a ELSE b
Min(a, b) == IF a < b THEN a ELSE b

\* mutant of Classify: a request equal to the head is queued on the left
ClassifyKeepsHead(track, h) ==
  IF track <= h THEN "left" ELSE "right"

\* mutant of Classify: a request right next to the head is dropped as well
ClassifyDropsNear(track, h) ==
  IF track < h THEN "left" ELSE IF track > h + 1 THEN "right" ELSE "skip"

\* the if / else-if of the partition loop
Classify(track, h) ==
  IF track < h THEN "left" ELSE IF track > h THEN "right" ELSE "skip"

RECURSIVE InsertAscending(_, _)
\* position of x in an ascending array; equal elements keep their order
InsertAscending(x, s) ==
  IF s = <<>> THEN <<x>>
  ELSE IF x - Head(s) < 0 THEN <<x>> \o s
  ELSE <<Head(s)>> \o InsertAscending(x, Tail(s))

RECURSIVE InsertDescending(_, _)
InsertDescending(x, s) ==
  IF s = <<>> THEN <<x>>
  ELSE IF Head(s) - x < 0 THEN <<x>> \o s
  ELSE <<Head(s)>> \o InsertDescending(x, Tail(s))

RECURSIVE Dedup(_)
\* helper of the sort mutants: drops repeated values
Dedup(s) ==
  IF s = <<>> THEN <<>>
  ELSE LET r == Dedup(SubSeq(s, 1, Len(s) - 1))
       IN  IF \E k \in 1..Len(r) : r[k] = s[Len(s)] THEN r
           ELSE Append(r, s[Len(s)])

RECURSIVE SortAscendingRaw(_)
SortAscendingRaw(s) ==
  IF s = <<>> THEN <<>>
  ELSE InsertAscending(s[Len(s)], SortAscendingRaw(SubSeq(s, 1, Len(s) - 1)))

RECURSIVE SortDescendingRaw(_)
SortDescendingRaw(s) ==
  IF s = <<>> THEN <<>>
  ELSE InsertDescending(s[Len(s)], SortDescendingRaw(SubSeq(s, 1, Len(s) - 1)))

\* mutant of SortAscending: duplicates collapse into one entry
SortAscendingUnique(s) == SortAscendingRaw(Dedup(s))

\* mutant of SortDescending: duplicates collapse into one entry
SortDescendingUnique(s) == SortDescendingRaw(Dedup(s))

\* mutant of SortDescending: the comparator is a - b instead of b - a
SortAscendingKeepsOrder(s) == s

SortDescendingWrongOrder(s) == SortAscendingRaw(s)

\* mutant of SortAscending: the comparator is b - a instead of a - b
SortAscendingReversed(s) == SortDescendingRaw(s)

\* right.sort((a, b) => a - b)
SortAscending(s) == SortAscendingRaw(s)

\* left.sort((a, b) => b - a)
SortDescending(s) == SortDescendingRaw(s)

\* mutant of SeekDistance: Math.abs is left out
SeekDistanceSigned(cur, track) == cur - track

\* const seekDistance = Math.abs(currentPosition - track)
SeekDistance(cur, track) == Abs(cur - track)

\* mutant of NeedsSweep: the sweep is skipped while the head has not moved
NeedsSweepAfterService(cur, boundary) ==
  cur # boundary /\ cur # headPos

\* mutant of NeedsSweep: the sweep is unconditional
NeedsSweepAlways(cur, boundary) == TRUE

\* if (currentPosition !== maxCylinder) / if (currentPosition !== 0)
NeedsSweep(cur, boundary) == cur # boundary

\* mutant of RequestsAfterSort: the sort is applied to the caller's array
RequestsSortedInPlace(reqs) == SortAscendingRaw(reqs)

\* Array.prototype.sort works in place, but on the arrays left and right,
\* which the function created itself; the requests array stays as it was
RequestsAfterSort(reqs) == reqs

\* mutant of Advance: the loop does not move on to the next element
AdvanceStuck(k) == k

\* for (const track of ...): the iterator moves to the next element
Advance(k) == k + 1

\* mutant of NextPosition: the head position is not updated after a step
NextPositionStale(cur, track) == cur

\* currentPosition = track
NextPosition(cur, track) == track

\* mutant of Accumulate: the running total is overwritten instead of added to
AccumulateOverwrite(total, dist) == dist

\* totalOverheadMovement += seekDistance
Accumulate(total, dist) == total + dist

\* mutant of SeekSequence: the start position is left out
SeekSequenceVisitedOnly(h, v) == v

\* seekSequence: [headPos, ...visited]
SeekSequence(h, v) == <<h>> \o v

FormatStepsFromTo(steps) ==
  [k \in 1..Len(steps) |->
     [large |-> steps[k].from, small |-> steps[k].to, dist |-> steps[k].dist]]

\* one pass of the formatting loop: large / small of every step
FormatSteps(steps) ==
  [k \in 1..Len(steps) |->
     [large |-> Max(steps[k].from, steps[k].to),
      small |-> Min(steps[k].from, steps[k].to),
      dist  |-> steps[k].dist]]

NoOutput ==
  [seekSequence |-> <<>>, totalOverheadMovement |-> 0,
   stepsExpression |-> <<>>, stepsValues |-> <<>>, stepsDetailed |-> <<>>]

\* const output: ScanOutput = { ... }
BuildOutput(h, v, total, steps) ==
  LET parts == FormatSteps(steps) IN
  [seekSequence |-> SeekSequence(h, v),
   totalOverheadMovement |-> total,
   stepsExpression |->
     [k \in 1..Len(parts) |-> <<parts[k].large, parts[k].small>>],
   stepsValues |-> [k \in 1..Len(parts) |-> parts[k].dist],
   stepsDetailed |->
     [k \in 1..Len(parts) |->
        <<parts[k].large, parts[k].small, parts[k].dist>>]]

\* ---------------------------------------- computeSCAN as one evaluation
\* (the same statements as the step-by-step actions below, for the callers
\* that run the function inside one handler)
RECURSIVE PartitionAll(_, _)
PartitionAll(reqs, h) ==
  IF reqs = <<>> THEN [left |-> <<>>, right |-> <<>>]
  ELSE LET rest == PartitionAll(SubSeq(reqs, 1, Len(reqs) - 1), h)
           track == reqs[Len(reqs)]
           c == Classify(track, h)
       IN  [left |-> IF c = "left" THEN Append(rest.left, track)
                     ELSE rest.left,
            right |-> IF c = "right" THEN Append(rest.right, track)
                      ELSE rest.right]

SeekOn(st, track) ==
  LET seekDistance == SeekDistance(st.cur, track) IN
  [cur |-> NextPosition(st.cur, track),
   total |-> Accumulate(st.total, seekDistance),
   visited |-> Append(st.visited, track),
   steps |-> Append(st.steps,
                    [from |-> st.cur, to |-> track, dist |-> seekDistance])]

RECURSIVE SeekAll(_, _)
SeekAll(st, tracks) ==
  IF tracks = <<>> THEN st
  ELSE SeekAll(SeekOn(st, Head(tracks)), Tail(tracks))

ComputeSCAN(reqs, h, d, m) ==
  LET parts == PartitionAll(reqs, h)
      l == SortDescending(parts.left)
      r == SortAscending(parts.right)
      s0 == [cur |-> h, total |-> 0, visited |-> <<>>, steps |-> <<>>]
      s1 == SeekAll(s0, IF d = "right" THEN r ELSE l)
      bound == IF d = "right" THEN m ELSE 0
      s2 == IF NeedsSweep(s1.cur, bound) THEN SeekOn(s1, bound) ELSE s1
      s3 == SeekAll(s2, IF d = "right" THEN l ELSE r)
  IN  BuildOutput(h, s3.visited, s3.total, s3.steps)

\* --------------------------- the debug-logging draft of computeSCAN
\* (src/unnamed/part_006); log is what console.log has printed so far
RECURSIVE DebugPartition(_, _)
\* for (const track of requests) { if (track < headPos) ... else if (>) ... }
DebugPartition(reqs, h) ==
  IF reqs = <<>> THEN [left |-> <<>>, right |-> <<>>]
  ELSE LET rest == DebugPartition(SubSeq(reqs, 1, Len(reqs) - 1), h)
           track == reqs[Len(reqs)]
       IN  IF track < h
           THEN [left |-> Append(rest.left, track), right |-> rest.right]
           ELSE IF track > h
           THEN [left |-> rest.left, right |-> Append(rest.right, track)]
           ELSE rest

DebugSeekDistanceSigned(cur, track) == cur - track

\* const seekDistance = Math.abs(currentPosition - track)
DebugSeekDistance(cur, track) == Abs(cur - track)

\* one iteration of a service loop, or the body of a boundary if
DebugSeekOn(st, track) ==
  LET seekDistance == DebugSeekDistance(st.cur, track) IN
  [cur |-> track,
   total |-> st.total + seekDistance,
   visited |-> Append(st.visited, track),
   steps |-> Append(st.steps,
                    [from |-> st.cur, to |-> track, dist |-> seekDistance]),
   log |-> Append(st.log, <<"Move", st.cur, track, seekDistance>>)]

RECURSIVE DebugSeekAll(_, _)
DebugSeekAll(st, tracks) ==
  IF tracks = <<>> THEN st
  ELSE DebugSeekAll(DebugSeekOn(st, Head(tracks)), Tail(tracks))

DebugComputeSCAN(reqs, h, d, m) ==
  LET parts == DebugPartition(reqs, h)
      l == SortDescendingRaw(parts.left)
      r == SortAscendingRaw(parts.right)
      s0 == [cur |-> h, total |-> 0, visited |-> <<>>, steps |-> <<>>,
             log |-> <<<<"Input", reqs, h, d, m>>, <<"Left", l>>,
                       <<"Right", r>>>>]
      s1 == DebugSeekAll(s0, IF d = "right" THEN r ELSE l)
      bound == IF d = "right" THEN m ELSE 0
      s2 == IF s1.cur # bound THEN DebugSeekOn(s1, bound) ELSE s1
      s3 == DebugSeekAll(s2, IF d = "right" THEN l ELSE r)
      large(k) == Max(s3.steps[k].from, s3.steps[k].to)
      small(k) == Min(s3.steps[k].from, s3.steps[k].to)
      n == Len(s3.steps)
  IN  [seekSequence |-> <<h>> \o s3.visited,
       totalSeekTime |-> s3.total,
       stepsExpression |-> [k \in 1..n |-> <<large(k), small(k)>>],
       stepsValues |-> [k \in 1..n |-> s3.steps[k].dist],
       stepsDetailed |->
         [k \in 1..n |-> <<large(k), small(k), s3.steps[k].dist>>]]

\* ------------------------------------------------- texts of the form fields
\* a text is a sequence of one-character strings
DigitChars == <<"0", "1", "2", "3", "4", "5", "6", "7", "8", "9">>

IsDigit(c) == \E d \in 1..10 : DigitChars[d] = c

DigitValue(c) == (CHOOSE d \in 1..10 : DigitChars[d] = c) - 1

\* a number that is NaN / a number with a value
NaN == [nan |-> TRUE, val |-> 0]
Num(n) == [nan |-> FALSE, val |-> n]

RECURSIVE SkipSpaces(_)
SkipSpaces(t) ==
  IF t # <<>> /\ Head(t) = " " THEN SkipSpaces(Tail(t)) ELSE t

RECURSIVE DigitPrefix(_)
DigitPrefix(t) ==
  IF t # <<>> /\ IsDigit(Head(t)) THEN <<Head(t)>> \o DigitPrefix(Tail(t))
  ELSE <<>>

RECURSIVE DigitsToNumber(_, _)
DigitsToNumber(ds, acc) ==
  IF ds = <<>> THEN acc
  ELSE DigitsToNumber(Tail(ds), 10 * acc + DigitValue(Head(ds)))

\* mutant of ParseInt: the whole text must be digits (a strict parser)
ParseIntStrict(t) ==
  IF t # <<>> /\ \A k \in 1..Len(t) : IsDigit(t[k])
    THEN Num(DigitsToNumber(t, 0)) ELSE NaN

\* parseInt(text): leading blanks are skipped, an optional sign is read, then
\* the longest run of digits; whatever follows is ignored; NaN without digits
ParseInt(t) ==
  LET u == SkipSpaces(t)
      signed == u # <<>> /\ (u[1] = "-" \/ u[1] = "+")
      ds == DigitPrefix(IF signed THEN Tail(u) ELSE u)
  IN  IF ds = <<>> THEN NaN
      ELSE IF signed /\ u[1] = "-" THEN Num(0 - DigitsToNumber(ds, 0))
      ELSE Num(DigitsToNumber(ds, 0))

RECURSIVE SplitOnSpace(_)
\* text.split(" "): one piece per blank, empty pieces included
SplitOnSpace(t) ==
  IF \A k \in 1..Len(t) : t[k] # " " THEN <<t>>
  ELSE LET k == CHOOSE j \in 1..Len(t) :
                  t[j] = " " /\ \A q \in 1..(j - 1) : t[q] # " "
       IN  <<SubSeq(t, 1, k - 1)>> \o SplitOnSpace(SubSeq(t, k + 1, Len(t)))

RECURSIVE SplitOnBlanks(_)
\* text.split(/\s+/): a run of blanks separates two pieces
SplitOnBlanks(t) ==
  IF \A k \in 1..Len(t) : t[k] # " " THEN <<t>>
  ELSE LET k == CHOOSE j \in 1..Len(t) :
                  t[j] = " " /\ \A q \in 1..(j - 1) : t[q] # " "
       IN  <<SubSeq(t, 1, k - 1)>>
             \o SplitOnBlanks(SkipSpaces(SubSeq(t, k, Len(t))))

RECURSIVE DropTrailingSpaces(_)
DropTrailingSpaces(t) ==
  IF t # <<>> /\ t[Len(t)] = " "
    THEN DropTrailingSpaces(SubSeq(t, 1, Len(t) - 1)) ELSE t

\* text.trim()
Trim(t) == DropTrailingSpaces(SkipSpaces(t))

RECURSIVE JoinWithSpace(_)
\* pieces.join(" ")
JoinWithSpace(pieces) ==
  IF pieces = <<>> THEN <<>>
  ELSE IF Len(pieces) = 1 THEN pieces[1]
  ELSE pieces[1] \o <<" ">> \o JoinWithSpace(Tail(pieces))

\* ------------------------------------------------------------------ inputs
\* head and requests range one track beyond either end of [0, MaxTrack]
Values == (0 - 1) .. (MaxTrack + 1)

SeqsUpTo(S, n) == UNION { [1..k -> S] : k \in 0..n }

Directions == {"right", "left"}

SmallInputs ==
  { <<r, h, d, m>> : r \in SeqsUpTo(Values, MaxLen), h \in Values,
                     d \in Directions, m \in 0..MaxTrack }

\* the concrete scenarios A, B, C (both directions) and D
Scenarios ==
  { << <<82, 170, 43, 140, 24, 16, 190>>, 50, "right", 199 >>,
    << <<>>, 50, "right", 199 >>,
    << <<50>>, 50, "right", 100 >>,
    << <<50>>, 50, "left", 100 >>,
    << <<10>>, 10, "left", 50 >> }

Inputs == SmallInputs \cup Scenarios

\* the inputs of the repeated-call and termination specifications
CallValues == (0 - 1) .. (CallTrack + 1)

CallInputs ==
  { <<r, h, d, m>> : r \in SeqsUpTo(CallValues, CallLen), h \in CallValues,
                     d \in Directions, m \in 1..CallTrack }
    \cup Scenarios

\* the inputs of the calls made after the first one
LaterInputs ==
  { <<r, h, d, m>> : r \in SeqsUpTo(CallValues, LaterLen), h \in CallValues,
                     d \in Directions, m \in 1..CallTrack }
    \cup Scenarios

NoCall == [in |-> <<>>, out |-> NoOutput]

\* ------------------------------------------------------ state of the page
NoError == [msg |-> "", args |-> <<>>]
Err(m) == [msg |-> m, args |-> <<>>]

NoErrors == [head |-> NoError, diskSize |-> NoError, requests |-> NoError]

\* the useState initial values of DiskScheduling and InputCard; output is
\* <<>> for null and <<result>> otherwise
UiInitial ==
  [requests |-> <<>>, head |-> <<>>, direction |-> "right",
   diskSize |-> <<>>, parsedRequests |-> <<>>, isSolved |-> FALSE,
   output |-> <<>>, errors |-> NoErrors]

\* no generateRandomValues is running
NoGen == [randomDiskSize |-> 0, randomHead |-> 0, uniqueRequests |-> <<>>]

\* ------------------------------------------------------------------ actions
\* entry of computeSCAN with one of the inputs S: the declarations of the
\* locals, before the first loop
InitFrom(S) ==
  /\ \E in \in S :
       /\ requests = in[1]
       /\ headPos = in[2]
       /\ direction = in[3]
       /\ maxCylinder = in[4]
  /\ calls = 1
  /\ firstCall = NoCall
  /\ ui = UiInitial
  /\ lastClick = "none"
  /\ gen = NoGen
  /\ left = <<>>
  /\ right = <<>>
  /\ visited = <<>>
  /\ stepsTriples = <<>>
  /\ currentPosition = headPos
  /\ totalOverheadMovement = 0
  /\ pc = "partition"
  /\ i = 1
  /\ swept = FALSE
  /\ output = NoOutput

Init == InitFrom(Inputs)

\* the body shared by the four servicing loops and the two boundary steps
Seek(track) ==
  LET seekDistance == SeekDistance(currentPosition, track) IN
  /\ totalOverheadMovement' = Accumulate(totalOverheadMovement, seekDistance)
  /\ stepsTriples' = Append(stepsTriples,
                            [from |-> currentPosition, to |-> track,
                             dist |-> seekDistance])
  /\ visited' = Append(visited, track)
  /\ currentPosition' = NextPosition(currentPosition, track)

\* Phase 1: one iteration of `for (const track of requests)`
Partition ==
  /\ pc = "partition"
  /\ i <= Len(requests)
  /\ LET c == Classify(requests[i], headPos) IN
       /\ left' = IF c = "left" THEN Append(left, requests[i]) ELSE left
       /\ right' = IF c = "right" THEN Append(right, requests[i]) ELSE right
  /\ i' = Advance(i)
  /\ UNCHANGED <<outside, inputs, visited, stepsTriples, currentPosition,
                 totalOverheadMovement, pc, swept, output>>

\* Phase 2: both sorts, then the branch on direction
SortArrays ==
  /\ pc = "partition"
  /\ i > Len(requests)
  /\ left' = SortDescending(left)
  /\ right' = SortAscending(right)
  /\ requests' = RequestsAfterSort(requests)
  /\ pc' = IF direction = "right" THEN "rightFirst" ELSE "leftFirst"
  /\ i' = 1
  /\ UNCHANGED <<outside, headPos, direction, maxCylinder, visited,
                 stepsTriples, currentPosition, totalOverheadMovement, swept,
                 output>>

\* Step 3.1, direction right: one iteration over `right`
ServiceRightFirst ==
  /\ pc = "rightFirst"
  /\ i <= Len(right)
  /\ Seek(right[i])
  /\ i' = Advance(i)
  /\ UNCHANGED <<outside, inputs, left, right, pc, swept, output>>

\* Step 3.2, direction right: move to the end of the disk if not there
SweepToEnd ==
  /\ pc = "rightFirst"
  /\ i > Len(right)
  /\ IF NeedsSweep(currentPosition, maxCylinder)
       THEN Seek(maxCylinder) /\ swept' = TRUE
       ELSE UNCHANGED <<totalOverheadMovement, stepsTriples, visited,
                        currentPosition, swept>>
  /\ pc' = "leftSecond"
  /\ i' = 1
  /\ UNCHANGED <<outside, inputs, left, right, output>>

\* Step 3.3, direction right: one iteration over `left`
ServiceLeftSecond ==
  /\ pc = "leftSecond"
  /\ i <= Len(left)
  /\ Seek(left[i])
  /\ i' = Advance(i)
  /\ UNCHANGED <<outside, inputs, left, right, pc, swept, output>>

\* Step 3.1, direction left: one iteration over `left`
ServiceLeftFirst ==
  /\ pc = "leftFirst"
  /\ i <= Len(left)
  /\ Seek(left[i])
  /\ i' = Advance(i)
  /\ UNCHANGED <<outside, inputs, left, right, pc, swept, output>>

\* Step 3.2, direction left: move to track 0 if not there
SweepToStart ==
  /\ pc = "leftFirst"
  /\ i > Len(left)
  /\ IF NeedsSweep(currentPosition, 0)
       THEN Seek(0) /\ swept' = TRUE
       ELSE UNCHANGED <<totalOverheadMovement, stepsTriples, visited,
                        currentPosition, swept>>
  /\ pc' = "rightSecond"
  /\ i' = 1
  /\ UNCHANGED <<outside, inputs, left, right, output>>

\* Step 3.3, direction left: one iteration over `right`
ServiceRightSecond ==
  /\ pc = "rightSecond"
  /\ i <= Len(right)
  /\ Seek(right[i])
  /\ i' = Advance(i)
  /\ UNCHANGED <<outside, inputs, left, right, pc, swept, output>>

\* Phase 4 and the return
FormatOutput ==
  /\ \/ pc = "leftSecond" /\ i > Len(left)
     \/ pc = "rightSecond" /\ i > Len(right)
  /\ output' = BuildOutput(headPos, visited, totalOverheadMovement,
                           stepsTriples)
  /\ pc' = "done"
  /\ UNCHANGED <<outside, inputs, left, right, visited, stepsTriples,
                 currentPosition, totalOverheadMovement, i, swept>>

Next ==
  \/ Partition
  \/ SortArrays
  \/ ServiceRightFirst
  \/ SweepToEnd
  \/ ServiceLeftSecond
  \/ ServiceLeftFirst
  \/ SweepToStart
  \/ ServiceRightSecond
  \/ FormatOutput

Spec == Init /\ [][Next]_vars

\* ------------------------------------------------------ successive calls
\* mutant of NewVisited: visited is a module-level array, never reset
KeptVisited(prev) == prev

\* const visited: number[] = []  -- a fresh array in every call
NewVisited(prev) == <<>>

\* mutant of NewTotal: the accumulator lives outside the function
KeptTotal(prev) == prev

\* let totalOverheadMovement = 0  -- a fresh accumulator in every call
NewTotal(prev) == 0

\* the caller calls computeSCAN again after it has returned; every local is
\* declared afresh
Call ==
  /\ pc = "done"
  /\ calls < MaxCalls
  /\ \E in \in LaterInputs :
       /\ requests' = in[1]
       /\ headPos' = in[2]
       /\ direction' = in[3]
       /\ maxCylinder' = in[4]
       /\ currentPosition' = in[2]
  /\ left' = <<>>
  /\ right' = <<>>
  /\ visited' = NewVisited(visited)
  /\ stepsTriples' = <<>>
  /\ totalOverheadMovement' = NewTotal(totalOverheadMovement)
  /\ pc' = "partition"
  /\ i' = 1
  /\ swept' = FALSE
  /\ output' = NoOutput
  /\ calls' = calls + 1
  /\ firstCall' = IF calls = 1
                    THEN [in |-> <<requests, headPos, direction, maxCylinder>>,
                          out |-> output]
                    ELSE firstCall
  /\ UNCHANGED <<ui, lastClick, gen>>

InitCalls == InitFrom(Scenarios)

NextCalls ==
  \/ Partition
  \/ SortArrays
  \/ ServiceRightFirst
  \/ SweepToEnd
  \/ ServiceLeftSecond
  \/ ServiceLeftFirst
  \/ SweepToStart
  \/ ServiceRightSecond
  \/ FormatOutput
  \/ Call

SpecCalls == InitCalls /\ [][NextCalls]_vars

\* ------------------------------------------------------------- the page
\* what can be typed into the requests field (type="text")
RequestTokens ==
  { <<"1">>, <<"4">>, <<"-", "1">>, <<"a">> }

RequestTexts ==
  { JoinWithSpace(ts) : ts \in SeqsUpTo(RequestTokens, UiMaxTokens) }
    \cup { <<" ">>, <<" ", "3", " ", " ", "1">>, <<"1", ".", "5">> }

\* what the head and disk size fields (type="number") can hold
HeadTexts ==
  { <<>>, <<"2">>, <<"5">>, <<"-", "1">>, <<"1", ".", "5">> }

DiskTexts ==
  { <<>>, <<"0">>, <<"3">>, <<"2", ".", "5">> }

\* the dependency array of the reset effect
EffectDeps(u) == <<u.requests, u.head, u.diskSize>>

\* useEffect(() => { setIsSolved(false); setOutput(null); }, [...]) after
\* the render that follows a state change
AfterRender(old, new) ==
  IF EffectDeps(new) # EffectDeps(old)
    THEN [new EXCEPT !.isSolved = FALSE, !.output = <<>>]
    ELSE new

\* handleInputChange(setter, field)
HandleInputChange(u, field, text) ==
  AfterRender(u, [u EXCEPT ![field] = text, !.errors[field] = NoError])

\* if (invalidRequests.length > 1)
TooManyInvalid(n) == n > 1

NonEmptyText(t) == t # <<>>

\* the filter callback of invalidRequests
IsInvalidRequest(num) ==
  LET number == ParseInt(num) IN number.nan \/ number.val < 0

\* the validation part of InputCard.handleSolve: the newErrors object
Validate(u) ==
  LET headNum == ParseInt(u.head)
      diskSizeNum == ParseInt(u.diskSize)
      head1 ==
        IF u.head = <<>> THEN Err("This field is required")
        ELSE IF headNum.nan \/ headNum.val < 0
          THEN Err("Head position must be a non-negative integer")
        ELSE NoError
      disk ==
        IF u.diskSize = <<>> THEN Err("This field is required")
        ELSE IF diskSizeNum.nan \/ diskSizeNum.val <= 0
          THEN Err("Disk size must be an integer greater than 0")
        ELSE NoError
      head2 ==
        IF head1 = NoError /\ disk = NoError /\ headNum.val > diskSizeNum.val
          THEN [msg |-> "Head position cannot exceed disk size",
                args |-> <<headNum.val, diskSizeNum.val>>]
          ELSE head1
      numbers == SelectSeq(SplitOnSpace(u.requests), NonEmptyText)
      invalidRequests == SelectSeq(numbers, IsInvalidRequest)
      req1 ==
        IF Trim(u.requests) # <<>> /\ TooManyInvalid(Len(invalidRequests))
          THEN Err("All requests must be integers >= 0")
          ELSE NoError
      Exceeds(num) ==
        LET number == ParseInt(num) IN
        ~number.nan /\ number.val > diskSizeNum.val
      exceedingRequests == SelectSeq(numbers, Exceeds)
      req2 ==
        IF Trim(u.requests) # <<>> /\ disk = NoError /\ req1 = NoError
             /\ Len(exceedingRequests) > 0
          THEN [msg |-> "Requests cannot exceed disk size",
                args |-> <<diskSizeNum.val, exceedingRequests>>]
          ELSE req1
  IN  [head |-> head2, diskSize |-> disk, requests |-> req2]

IsNumber(n) == ~n.nan

\* DiskScheduling.handleSolve, the onSolve prop of InputCard
OnSolve(u) ==
  LET pieces == SplitOnBlanks(u.requests)
      parsed == [k \in 1..Len(pieces) |-> ParseInt(Trim(pieces[k]))]
      kept == SelectSeq(parsed, IsNumber)
      reqs == [k \in 1..Len(kept) |-> kept[k].val]
      headNum == ParseInt(u.head)
      disk == ParseInt(u.diskSize)
      maxCyl == IF disk.nan \/ disk.val = 0 THEN 199 ELSE disk.val
      u1 == [u EXCEPT !.parsedRequests = reqs]
  IN  IF headNum.nan THEN u1
      ELSE LET result == ComputeSCAN(reqs, headNum.val, u.direction, maxCyl)
           IN  [u1 EXCEPT
                  !.output =
                    <<[seekSequence |-> result.seekSequence,
                       totalOverheadMovement |->
                         result.totalOverheadMovement,
                       steps |-> result.stepsExpression]>>,
                  !.isSolved = TRUE]

\* the diskSize prop of OutputCard: parseInt(diskSize) || 199
DisplayedDiskSize(u) ==
  LET d == ParseInt(u.diskSize) IN
  IF d.nan \/ d.val = 0 THEN 199 ELSE d.val

\* {output && isSolved ? ... : placeholder}
Displayed(u) == u.isSolved /\ u.output # <<>>

\* const numberOfRequests = requests ? requests.length : 0
NumberOfRequests(u) == Len(u.parsedRequests)

AverageOverSteps(u) ==
  IF u.output # <<>> /\ Len(u.output[1].seekSequence) - 1 > 0
    THEN [num |-> u.output[1].totalOverheadMovement,
          den |-> Len(u.output[1].seekSequence) - 1]
    ELSE [num |-> 0, den |-> 1]

\* averageOverheadMovement, as the fraction num / den (0 is 0 / 1)
AverageOverheadMovement(u) ==
  IF u.output # <<>> /\ NumberOfRequests(u) > 0
    THEN [num |-> u.output[1].totalOverheadMovement,
          den |-> NumberOfRequests(u)]
    ELSE [num |-> 0, den |-> 1]

\* the variables of a computeSCAN call, which the page's handlers do not own
callState == <<requests, headPos, direction, maxCylinder, left, right,
               visited, stepsTriples, currentPosition, totalOverheadMovement,
               pc, i, swept, output, calls, firstCall>>

EditRequests ==
  /\ pc = "page"
  /\ \E t \in RequestTexts : ui' = HandleInputChange(ui, "requests", t)
  /\ lastClick' = "none"
  /\ UNCHANGED <<callState, gen>>

EditHead ==
  /\ pc = "page"
  /\ \E t \in HeadTexts : ui' = HandleInputChange(ui, "head", t)
  /\ lastClick' = "none"
  /\ UNCHANGED <<callState, gen>>

EditDiskSize ==
  /\ pc = "page"
  /\ \E t \in DiskTexts : ui' = HandleInputChange(ui, "diskSize", t)
  /\ lastClick' = "none"
  /\ UNCHANGED <<callState, gen>>

\* onChange of the direction <select>: setDirection(e.target.value)
SetDirection ==
  /\ pc = "page"
  /\ \E d \in Directions : ui' = AfterRender(ui, [ui EXCEPT !.direction = d])
  /\ lastClick' = "none"
  /\ UNCHANGED <<callState, gen>>

\* InputCard.handleSolve, the SOLVE button
HandleSolve ==
  /\ pc = "page"
  /\ LET newErrors == Validate(ui) IN
       IF newErrors # NoErrors
         THEN /\ ui' = [ui EXCEPT !.errors = newErrors]
              /\ lastClick' = "rejected"
         ELSE /\ ui' = OnSolve([ui EXCEPT !.errors = NoErrors])
              /\ lastClick' = "invoked"
  /\ UNCHANGED <<callState, gen>>

\* the page is mounted and no call of computeSCAN is in progress
InitUI ==
  /\ requests = <<>>
  /\ headPos = 0
  /\ direction = "right"
  /\ maxCylinder = 0
  /\ left = <<>>
  /\ right = <<>>
  /\ visited = <<>>
  /\ stepsTriples = <<>>
  /\ currentPosition = 0
  /\ totalOverheadMovement = 0
  /\ pc = "page"
  /\ i = 1
  /\ swept = FALSE
  /\ output = NoOutput
  /\ calls = 1
  /\ firstCall = NoCall
  /\ ui = UiInitial
  /\ lastClick = "none"
  /\ gen = NoGen

NextUI ==
  \/ EditRequests
  \/ EditHead
  \/ EditDiskSize
  \/ SetDirection
  \/ HandleSolve

SpecUI == InitUI /\ [][NextUI]_vars

\* ------------------------------------------- the GENERATE button
\* Math.floor(Math.random() * 201) + 100
GenDiskSpan == 201
GenDiskMin == 100
\* for (let i = 0; i < 5; i++), while (uniqueRequests.length < 5)
GenCount == 5

\* Math.floor(Math.random() * n) is one of 0 .. n - 1: the two ends, for
\* the disk size and the head
RandomEnds(n) == {0, n - 1}

\* the lowest outcomes and the highest one, for the requests
RandomSample(n) == {k \in 0..(n - 1) : k < GenSpread \/ k = n - 1}

RECURSIVE ToText(_)
\* n.toString() of a non-negative integer
ToText(n) ==
  IF n < 10 THEN <<DigitChars[n + 1]>>
  ELSE ToText(n \div 10) \o <<DigitChars[(n % 10) + 1]>>

ArrayKeepsDuplicates(s) == s

RECURSIVE ArrayFromSet(_)
\* Array.from(new Set(randomRequests)): first occurrences, in order
ArrayFromSet(s) ==
  IF s = <<>> THEN <<>>
  ELSE LET r == ArrayFromSet(SubSeq(s, 1, Len(s) - 1))
       IN  IF \E k \in 1..Len(r) : r[k] = s[Len(s)] THEN r
           ELSE Append(r, s[Len(s)])

\* uniqueRequests.includes(additionalRequest)
Includes(s, v) == \E k \in 1..Len(s) : s[k] = v

\* generateRandomValues up to the while loop: the three kinds of draws
GenerateStart ==
  /\ pc = "page"
  /\ \E a \in RandomEnds(GenDiskSpan) :
       LET randomDiskSize == a + GenDiskMin IN
       \E randomHead \in RandomEnds(randomDiskSize + 1) :
         \E randomRequests \in
              [1..GenCount -> {k + 1 : k \in RandomSample(randomDiskSize)}] :
           gen' = [randomDiskSize |-> randomDiskSize,
                   randomHead |-> randomHead,
                   uniqueRequests |-> ArrayFromSet(randomRequests)]
  /\ pc' = "topup"
  /\ UNCHANGED <<requests, headPos, direction, maxCylinder, left, right,
                 visited, stepsTriples, currentPosition,
                 totalOverheadMovement, i, swept, output, calls, firstCall,
                 ui, lastClick>>

\* one iteration of the while loop
TopUp ==
  /\ pc = "topup"
  /\ Len(gen.uniqueRequests) < GenCount
  /\ \E k \in RandomSample(gen.randomDiskSize) :
       LET additionalRequest == k + 1 IN
       gen' = IF ~Includes(gen.uniqueRequests, additionalRequest)
                THEN [gen EXCEPT !.uniqueRequests =
                                   Append(@, additionalRequest)]
                ELSE gen
  /\ UNCHANGED <<callState, ui, lastClick>>

\* the state updates of generateRandomValues, applied when it returns, and
\* the render that follows
GenerateFinish ==
  /\ pc = "topup"
  /\ ~(Len(gen.uniqueRequests) < GenCount)
  /\ ui' = AfterRender(ui,
             [ui EXCEPT
                !.diskSize = ToText(gen.randomDiskSize),
                !.head = ToText(gen.randomHead),
                !.requests =
                  JoinWithSpace([k \in 1..Len(gen.uniqueRequests) |->
                                   ToText(gen.uniqueRequests[k])]),
                !.errors = NoErrors])
  /\ lastClick' = "generated"
  /\ gen' = NoGen
  /\ pc' = "page"
  /\ UNCHANGED <<requests, headPos, direction, maxCylinder, left, right,
                 visited, stepsTriples, currentPosition,
                 totalOverheadMovement, i, swept, output, calls, firstCall>>

\* GENERATE pressed while the three fields are still empty
GenerateOnEmptyPage ==
  /\ ui.requests = <<>>
  /\ ui.head = <<>>
  /\ ui.diskSize = <<>>
  /\ GenerateStart

NextGen ==
  \/ GenerateOnEmptyPage
  \/ TopUp
  \/ GenerateFinish
  \/ HandleSolve

\* the while loop keeps drawing, and a draw that is not yet included comes
\* up sooner or later; the handler runs to its end
SpecGen ==
  InitUI /\ [][NextGen]_vars /\ WF_vars(TopUp) /\ WF_vars(GenerateFinish)

\* --------------------------------------------------------- one call, run on
\* computeSCAN is synchronous code: once called it keeps executing, so a
\* call that can take a step eventually takes one
InitLive == InitFrom(CallInputs)

FairSpec == InitLive /\ [][Next]_vars /\ WF_vars(Next)

\* ------------------------------------------------------- the seek chart
\* SeekChart.tsx layout configuration
baseWidth == 750
minWidthPerTrack == 60
padding == 60

AllTracksUnsorted(sequence, diskSize) ==
  ArrayFromSet(<<0>> \o sequence \o <<diskSize>>)

\* Array.from(new Set([0, ...sequence, diskSize])).sort((a, b) => a - b)
AllTracks(sequence, diskSize) ==
  SortAscendingRaw(ArrayFromSet(<<0>> \o sequence \o <<diskSize>>))

\* allTracks.indexOf(track): 0-based, -1 when absent
IndexOf(s, v) ==
  IF \E k \in 1..Len(s) : s[k] = v
    THEN (CHOOSE k \in 1..Len(s) :
            s[k] = v /\ \A j \in 1..(k - 1) : s[j] # v) - 1
    ELSE 0 - 1

\* usableWidth = Math.max(baseWidth, allTracks.length * minWidthPerTrack)
\*               - padding * 2
UsableWidth(allTracks) ==
  Max(baseWidth, Len(allTracks) * minWidthPerTrack) - padding * 2

\* trackToX(track) as the fraction num / den; den is the divisor
\* allTracks.length - 1 of the source
TrackToX(allTracks, track) ==
  LET index == IndexOf(allTracks, track)
      den == Len(allTracks) - 1
  IN  [num |-> padding * den + index * UsableWidth(allTracks), den |-> den]

\* ------------------------------------------------- vocabulary of the claims
Done == pc = "done"

Count(v, s) == Cardinality({k \in 1..Len(s) : s[k] = v})

Occurs(v, s) == \E k \in 1..Len(s) : s[k] = v

RECURSIVE SumAbsDiff(_)
\* sum of |s[k+1] - s[k]| over the consecutive pairs of s
SumAbsDiff(s) ==
  IF Len(s) < 2 THEN 0
  ELSE Abs(s[2] - s[1]) + SumAbsDiff(Tail(s))

RECURSIVE SumDist(_)
\* sum of the recorded per-step distances
SumDist(steps) ==
  IF steps = <<>> THEN 0 ELSE Head(steps).dist + SumDist(Tail(steps))

\* the solver's preconditions: head and requests on the disk, maxCylinder > 0
Pre ==
  /\ maxCylinder > 0
  /\ headPos \in 0..maxCylinder
  /\ \A k \in 1..Len(requests) : requests[k] \in 0..maxCylinder

\* the boundary track of the chosen direction
Boundary == IF direction = "right" THEN maxCylinder ELSE 0

HighCount == Cardinality({k \in 1..Len(requests) : requests[k] > headPos})
LowCount == Cardinality({k \in 1..Len(requests) : requests[k] < headPos})

\* the largest / smallest request (used only when one exists on that side)
LargestRequest ==
  CHOOSE v \in {requests[k] : k \in 1..Len(requests)} :
    \A k \in 1..Len(requests) : requests[k] <= v
SmallestRequest ==
  CHOOSE v \in {requests[k] : k \in 1..Len(requests)} :
    \A k \in 1..Len(requests) : requests[k] >= v

AllEqualHead == \A k \in 1..Len(requests) : requests[k] = headPos

\* ------------------------------------------------------------------ claims

\* C1: for every input (empty list, any head, either direction, any
\* maxCylinder) the returned totalOverheadMovement is the sum of
\* |seekSequence[k+1] - seekSequence[k]| over the consecutive pairs of the
\* returned seekSequence, and also the sum of the recorded step distances.
C1_TotalIsSumOfDistances ==
  Done =>
    /\ output.totalOverheadMovement = SumAbsDiff(output.seekSequence)
    /\ output.totalOverheadMovement = SumDist(stepsTriples)

C1_Witness ==
  /\ Done
  /\ swept
  /\ HighCount >= 1
  /\ LowCount >= 1
  /\ output.totalOverheadMovement > 0
  /\ output.totalOverheadMovement = SumAbsDiff(output.seekSequence)

\* C2: under the solver's preconditions, with direction "right" and some
\* request above the head: if the largest request is maxCylinder itself no
\* boundary step is added (maxCylinder occurs as often as it was requested);
\* otherwise maxCylinder occurs exactly once in seekSequence, right after the
\* last (largest) request above the head and before every request below it.
C2_SweepToEndOnce ==
  (Done /\ Pre /\ direction = "right" /\ HighCount >= 1) =>
    LET seq == output.seekSequence IN
    IF LargestRequest = maxCylinder
      THEN /\ ~swept
           /\ Count(maxCylinder, seq) = Count(maxCylinder, requests)
           /\ Len(seq) = 1 + HighCount + LowCount
      ELSE /\ Count(maxCylinder, seq) = 1
           /\ Len(seq) = 2 + HighCount + LowCount
           /\ seq[HighCount + 1] = LargestRequest
           /\ seq[HighCount + 2] = maxCylinder
           /\ \A k \in 2..(HighCount + 1) : seq[k] > headPos
           /\ \A k \in (HighCount + 3)..Len(seq) : seq[k] < headPos

C2_Witness ==
  /\ Done /\ Pre /\ direction = "right"
  /\ HighCount >= 2 /\ LowCount >= 1
  /\ LargestRequest # maxCylinder
  /\ output.seekSequence[HighCount + 2] = maxCylinder

\* C3: under the solver's preconditions, with direction "left" and some
\* request below the head: if the smallest request is 0 itself no boundary
\* step is added (0 occurs as often as it was requested); otherwise 0 occurs
\* exactly once in seekSequence, right after the last (smallest) request
\* below the head and before every request above it.
C3_SweepToStartOnce ==
  (Done /\ Pre /\ direction = "left" /\ LowCount >= 1) =>
    LET seq == output.seekSequence IN
    IF SmallestRequest = 0
      THEN /\ ~swept
           /\ Count(0, seq) = Count(0, requests)
           /\ Len(seq) = 1 + HighCount + LowCount
      ELSE /\ Count(0, seq) = 1
           /\ Len(seq) = 2 + HighCount + LowCount
           /\ seq[LowCount + 1] = SmallestRequest
           /\ seq[LowCount + 2] = 0
           /\ \A k \in 2..(LowCount + 1) : seq[k] < headPos
           /\ \A k \in (LowCount + 3)..Len(seq) : seq[k] > headPos

C3_Witness ==
  /\ Done /\ Pre /\ direction = "left"
  /\ LowCount >= 2 /\ HighCount >= 1
  /\ SmallestRequest # 0
  /\ output.seekSequence[LowCount + 2] = 0

\* C4 as stated: an empty request list yields seekSequence = [head] and
\* totalOverheadMovement = 0, with no boundary sweep.
C4_EmptyYieldsHeadOnly ==
  (Done /\ requests = <<>>) =>
    /\ output.seekSequence = <<headPos>>
    /\ output.totalOverheadMovement = 0
    /\ ~swept

\* C4 amended: an empty request list yields [head, boundary] and total
\* |head - boundary| (boundary = maxCylinder for "right", 0 for "left"); the
\* result is [head] with total 0 only when the head is already at the
\* boundary.
C4_EmptySweepsToBoundary ==
  (Done /\ requests = <<>>) =>
    IF headPos = Boundary
      THEN /\ output.seekSequence = <<headPos>>
           /\ output.totalOverheadMovement = 0
           /\ ~swept
      ELSE /\ output.seekSequence = <<headPos, Boundary>>
           /\ output.totalOverheadMovement = Abs(headPos - Boundary)
           /\ swept

C4_Witness ==
  /\ Done
  /\ requests = <<>> /\ headPos = 50 /\ direction = "right"
  /\ maxCylinder = 199
  /\ output.seekSequence = <<50, 199>>
  /\ output.totalOverheadMovement = 149

\* C5 as stated: when every request equals head the result is
\* seekSequence = [head] and totalOverheadMovement = 0, for either direction.
C5_AllAtHeadYieldsHeadOnly ==
  (Done /\ requests # <<>> /\ AllEqualHead) =>
    /\ output.seekSequence = <<headPos>>
    /\ output.totalOverheadMovement = 0

\* C5 amended: when every request equals head no request adds a step, but
\* the boundary sweep is still made: the result is [head, boundary] with
\* total |head - boundary|, and [head] with total 0 only when the head is
\* already at the boundary of the chosen direction.
C5_AllAtHeadSweepsToBoundary ==
  (Done /\ requests # <<>> /\ AllEqualHead) =>
    /\ output.seekSequence =
         IF headPos = Boundary THEN <<headPos>> ELSE <<headPos, Boundary>>
    /\ output.totalOverheadMovement = Abs(headPos - Boundary)

C5_Witness ==
  /\ Done
  /\ requests = <<50>> /\ headPos = 50 /\ direction = "left"
  /\ maxCylinder = 100
  /\ output.seekSequence = <<50, 0>>
  /\ output.totalOverheadMovement = 50

\* C6: every request value different from head occurs in the returned
\* seekSequence, for either direction.
C6_EveryRequestServiced ==
  Done =>
    \A k \in 1..Len(requests) :
      requests[k] # headPos => Occurs(requests[k], output.seekSequence)

C6_Witness ==
  /\ Done
  /\ HighCount >= 1 /\ LowCount >= 1
  /\ \E k \in 1..Len(requests) : requests[k] = headPos + 1
  /\ \A k \in 1..Len(requests) :
       requests[k] # headPos => Occurs(requests[k], output.seekSequence)

\* C7: the boundary step is taken exactly when the position after the first
\* group differs from the boundary, whether or not that group is empty; the
\* sequence is head, first group, the boundary if the step was taken, second
\* group; a boundary step never has distance 0; and under the preconditions
\* the boundary track occurs in seekSequence.
C7_SweepIffNotAtBoundary ==
  Done =>
    LET first == IF direction = "right" THEN right ELSE left
        second == IF direction = "right" THEN left ELSE right
        after == IF first = <<>> THEN headPos ELSE first[Len(first)]
        n == Len(first)
    IN  /\ swept <=> (after # Boundary)
        /\ output.seekSequence =
             <<headPos>> \o first
               \o (IF after # Boundary THEN <<Boundary>> ELSE <<>>) \o second
        /\ swept => /\ Len(stepsTriples) > n
                    /\ stepsTriples[n + 1].from = after
                    /\ stepsTriples[n + 1].to = Boundary
                    /\ stepsTriples[n + 1].dist > 0
        /\ Pre => Occurs(Boundary, output.seekSequence)

C7_Witness ==
  /\ Done /\ Pre
  /\ (IF direction = "right" THEN right ELSE left) = <<>>
  /\ (IF direction = "right" THEN left ELSE right) # <<>>
  /\ swept
  /\ output.seekSequence[2] = Boundary

\* C8: seekSequence.length = 1 + (number of requests different from head,
\* duplicates counted) + b, with b = 1 when a boundary step was taken and
\* b = 0 otherwise.
C8_SequenceLength ==
  Done =>
    Len(output.seekSequence) =
      1 + Cardinality({k \in 1..Len(requests) : requests[k] # headPos})
        + (IF swept THEN 1 ELSE 0)

C8_Witness ==
  /\ Done
  /\ swept
  /\ \E j, k \in 1..Len(requests) :
       j # k /\ requests[j] = requests[k] /\ requests[j] # headPos
  /\ Len(output.seekSequence) = Len(requests) + 2

\* C9: for every value v different from head, seekSequence holds v at least
\* as often as requests does, and exactly as often unless v is the boundary
\* track that was swept to.
C9_DuplicatesPreserved ==
  Done =>
    \A k \in 1..Len(requests) :
      LET v == requests[k] IN
      v # headPos =>
        /\ Count(v, output.seekSequence) >= Count(v, requests)
        /\ ~(swept /\ v = Boundary) =>
             Count(v, output.seekSequence) = Count(v, requests)

C9_Witness ==
  /\ Done
  /\ \E k \in 1..Len(requests) :
       /\ requests[k] # headPos
       /\ requests[k] < headPos
       /\ Count(requests[k], requests) >= 2
       /\ Count(requests[k], output.seekSequence) = Count(requests[k], requests)

\* C10: seekSequence[0] is head for every input, including an empty request
\* list and a head outside [0, maxCylinder].
C10_SequenceStartsAtHead ==
  Done =>
    /\ Len(output.seekSequence) >= 1
    /\ output.seekSequence[1] = headPos

C10_Witness ==
  /\ Done
  /\ requests = <<>>
  /\ headPos > maxCylinder
  /\ output.seekSequence[1] = headPos

\* the inputs of concrete scenario A
ScenarioA ==
  /\ requests = <<82, 170, 43, 140, 24, 16, 190>>
  /\ headPos = 50
  /\ direction = "right"
  /\ maxCylinder = 199

\* C11: for requests = [82,170,43,140,24,16,190], head = 50, direction
\* "right", maxCylinder = 199 the returned seekSequence is exactly
\* [50,82,140,170,190,199,43,24,16].
C11_ScenarioASequence ==
  (Done /\ ScenarioA) =>
    output.seekSequence = <<50, 82, 140, 170, 190, 199, 43, 24, 16>>

C11_Witness ==
  /\ Done /\ ScenarioA
  /\ Len(output.seekSequence) = 9
  /\ output.seekSequence[6] = 199
  /\ output.seekSequence[9] = 16

\* C12 as stated: for the inputs of scenario A totalOverheadMovement is 389.
C12_ScenarioATotal389 ==
  (Done /\ ScenarioA) => output.totalOverheadMovement = 389

\* C12 amended: for the inputs of scenario A totalOverheadMovement is 332
\* (32 + 58 + 30 + 20 + 9 + 156 + 19 + 8).
C12_ScenarioATotal332 ==
  (Done /\ ScenarioA) =>
    /\ output.totalOverheadMovement = 332
    /\ output.stepsValues = <<32, 58, 30, 20, 9, 156, 19, 8>>

C12_Witness ==
  /\ Done /\ ScenarioA
  /\ output.totalOverheadMovement = 332
  /\ swept

\* C13: computeSCAN is deterministic and stateless: a later call with the
\* inputs of the first call returns the same seekSequence, total and trace
\* as the first call did, whatever calls were made in between.
C13_SameInputsSameOutput ==
  (Done /\ calls > 1
     /\ firstCall.in = <<requests, headPos, direction, maxCylinder>>) =>
    output = firstCall.out

C13_Witness ==
  /\ Done
  /\ calls = 3
  /\ firstCall.in = <<requests, headPos, direction, maxCylinder>>
  /\ requests # <<>>
  /\ output = firstCall.out
  /\ Len(output.seekSequence) > 2

\* C14: computeSCAN does not mutate its inputs: no step of a call changes
\* the requests array (nor head, direction, maxCylinder), so after the call
\* it has the same elements in the same order as before.
C14_InputsNotMutated ==
  [][requests' = requests /\ headPos' = headPos /\ direction' = direction
       /\ maxCylinder' = maxCylinder]_vars

C14_Witness ==
  /\ Done
  /\ Len(requests) >= 2
  /\ requests[1] > requests[2]
  /\ requests[2] > headPos
  /\ right # requests
  /\ right = SortAscendingRaw(requests)

\* C15: computeSCAN always returns: every call reaches its return statement,
\* also for heads and requests outside [0, maxCylinder], and it never records
\* more steps than the number of requests plus the one boundary step.
C15_Terminates ==
  /\ <>Done
  /\ [](Len(stepsTriples) <= Len(requests) + 1)

C15_Witness ==
  /\ Done
  /\ requests # <<>>
  /\ \E k \in 1..Len(requests) : requests[k] \notin 0..maxCylinder
  /\ Len(stepsTriples) = Len(requests) + 1

\* the part of s between positions a and b holds exactly the requests that
\* satisfy the side test (above or below the head), each as often as requested
HoldsRequests(s, a, b, above) ==
  /\ \A k \in a..b : IF above THEN s[k] > headPos ELSE s[k] < headPos
  /\ \A j \in 1..Len(requests) :
       (IF above THEN requests[j] > headPos ELSE requests[j] < headPos) =>
         Cardinality({k \in a..b : s[k] = requests[j]})
           = Count(requests[j], requests)

\* C19: with direction "right" the tracks after head are all requests above
\* head in ascending order, then the boundary maxCylinder if the boundary
\* step was taken, then all requests below head in descending order; with
\* direction "left" the requests below head descending, then the boundary 0
\* if taken, then the requests above head ascending.  Under the preconditions
\* the sequence moves one way up to a turning point and the other way after
\* it.
C19_TraversalOrder ==
  Done =>
    LET seq == output.seekSequence
        b == IF swept THEN 1 ELSE 0
        n1 == IF direction = "right" THEN HighCount ELSE LowCount
        n2 == IF direction = "right" THEN LowCount ELSE HighCount
        up == direction = "right"
    IN  /\ Len(seq) = 1 + n1 + b + n2
        /\ HoldsRequests(seq, 2, n1 + 1, up)
        /\ \A k \in 2..n1 :
             IF up THEN seq[k] <= seq[k + 1] ELSE seq[k] >= seq[k + 1]
        /\ swept => seq[n1 + 2] = Boundary
        /\ HoldsRequests(seq, n1 + b + 2, Len(seq), ~up)
        /\ \A k \in (n1 + b + 2)..(Len(seq) - 1) :
             IF up THEN seq[k] >= seq[k + 1] ELSE seq[k] <= seq[k + 1]
        /\ Pre =>
             \E t \in 1..Len(seq) :
               /\ \A k \in 1..(t - 1) :
                    IF up THEN seq[k] <= seq[k + 1] ELSE seq[k] >= seq[k + 1]
               /\ \A k \in t..(Len(seq) - 1) :
                    IF up THEN seq[k] >= seq[k + 1] ELSE seq[k] <= seq[k + 1]

C19_Witness ==
  /\ Done /\ Pre /\ ScenarioA
  /\ swept
  /\ HighCount = 4
  /\ LowCount = 3
  /\ output.seekSequence[4] < output.seekSequence[5]
  /\ output.seekSequence[6] = Boundary
  /\ output.seekSequence[7] > output.seekSequence[8]

\* C20: at every point of the computation currentPosition is the last
\* element of [head] ++ visited, the running total is the sum of the
\* distances recorded so far, every recorded step starts where the previous
\* one ended (at head for the first step), leads to the track that was
\* visited, and has dist = |to - from| >= 0.
C20_StepChain ==
  LET path == <<headPos>> \o visited IN
  /\ currentPosition = path[Len(path)]
  /\ totalOverheadMovement = SumDist(stepsTriples)
  /\ Len(stepsTriples) = Len(visited)
  /\ \A k \in 1..Len(stepsTriples) :
       /\ stepsTriples[k].from = path[k]
       /\ stepsTriples[k].to = path[k + 1]
       /\ stepsTriples[k].dist = Abs(stepsTriples[k].to - stepsTriples[k].from)
       /\ stepsTriples[k].dist >= 0

C20_Witness ==
  /\ pc = "leftSecond"
  /\ i = 2
  /\ swept
  /\ Len(stepsTriples) = 3
  /\ stepsTriples[3].from = maxCylinder
  /\ currentPosition = stepsTriples[3].to
  /\ totalOverheadMovement = SumDist(stepsTriples)

\* the step-by-step call and the one-evaluation form return the same result
ComputeSCANAgrees ==
  Done => output = ComputeSCAN(requests, headPos, direction, maxCylinder)

\* a text that is a non-negative integer: digits and nothing else
IsIntegerText(t) == t # <<>> /\ \A k \in 1..Len(t) : IsDigit(t[k])

TextValue(t) == DigitsToNumber(t, 0)

\* the space-separated tokens of the requests field
RequestTokensOf(u) == SelectSeq(SplitOnSpace(u.requests), NonEmptyText)

\* C16: SOLVE invokes onSolve only when every space-separated request token
\* is an integer >= 0 that does not exceed the disk size; if any token is
\* invalid the click sets the requests error and does not invoke onSolve.
C16_RequestGate ==
  LET toks == RequestTokensOf(ui)
      disk == ParseInt(ui.diskSize)
      ValidToken(t) ==
        /\ IsIntegerText(t)
        /\ ~disk.nan => TextValue(t) <= disk.val
      allValid == \A k \in 1..Len(toks) : ValidToken(toks[k])
  IN  /\ lastClick = "invoked" => allValid
      /\ (lastClick # "none" /\ ~allValid) =>
           /\ lastClick = "rejected"
           /\ ui.errors.requests.msg \in
                {"All requests must be integers >= 0",
                 "Requests cannot exceed disk size"}

\* C17: SOLVE invokes onSolve only when head is a non-empty non-negative
\* integer, disk size is a non-empty integer > 0 and head <= disk size; in
\* every other case the click sets an error on the offending field, leaves
\* the solved output untouched and does not invoke onSolve.
C17_HeadDiskGate ==
  [][lastClick' # "none" =>
       LET headOk == IsIntegerText(ui.head)
           diskOk == IsIntegerText(ui.diskSize) /\ TextValue(ui.diskSize) > 0
           tooFar == headOk /\ diskOk
                       /\ TextValue(ui.head) > TextValue(ui.diskSize)
           ok == headOk /\ diskOk /\ ~tooFar
       IN  /\ lastClick' = "invoked" => ok
           /\ ~ok =>
                /\ lastClick' = "rejected"
                /\ ~diskOk => ui'.errors.diskSize # NoError
                /\ (~headOk \/ tooFar) => ui'.errors.head # NoError
                /\ ui'.output = ui.output
                /\ ui'.isSolved = ui.isSolved]_vars

\* the four inputs shown on the page
Fields(u) == <<u.requests, u.head, u.direction, u.diskSize>>

\* C18: after a successful solve a change to any input (requests, head,
\* direction or disk size) resets isSolved to false and output to null, so
\* a displayed result is always the one computed from the inputs shown.
C18_ResetOnInputChange ==
  /\ [](ui.isSolved => ui.output = OnSolve(ui).output)
  /\ [][(ui.isSolved /\ Fields(ui') # Fields(ui)) =>
          (~ui'.isSolved /\ ui'.output = <<>>)]_vars

RECURSIVE SumValues(_)
\* sum of a list of numbers
SumValues(s) == IF s = <<>> THEN 0 ELSE Head(s) + SumValues(Tail(s))

\* C21: the three traces have one term per step, seekSequence.length - 1
\* of them, in step order (none when no step occurred); the k-th term is
\* built from large = max(from, to) and small = min(from, to) of step k,
\* large - small is that step's distance, and the terms of stepsValues sum
\* to totalOverheadMovement.
C21_TraceConsistent ==
  Done =>
    LET seq == output.seekSequence
        n == Len(seq) - 1
    IN  /\ Len(output.stepsExpression) = n
        /\ Len(output.stepsValues) = n
        /\ Len(output.stepsDetailed) = n
        /\ \A k \in 1..n :
             LET large == Max(seq[k], seq[k + 1])
                 small == Min(seq[k], seq[k + 1])
             IN  /\ output.stepsExpression[k] = <<large, small>>
                 /\ output.stepsValues[k] = large - small
                 /\ output.stepsDetailed[k] = <<large, small, large - small>>
        /\ SumValues(output.stepsValues) = output.totalOverheadMovement

C21_Witness ==
  /\ Done
  /\ swept
  /\ Len(output.stepsValues) = 3
  /\ output.seekSequence[1] < output.seekSequence[2]
  /\ output.seekSequence[3] > output.seekSequence[4]
  /\ output.stepsExpression[3] =
       <<output.seekSequence[3], output.seekSequence[4]>>
  /\ SumValues(output.stepsValues) = output.totalOverheadMovement
  /\ output.totalOverheadMovement > 0

\* the list s with v inserted after its first p elements
InsertAt(s, p, v) == SubSeq(s, 1, p) \o <<v>> \o SubSeq(s, p + 1, Len(s))

NotHead(t) == t # headPos

\* C22: requests equal to head add no step and no cost: the result of the
\* call is the result for the list without its copies of head, and one more
\* copy of head inserted at any place of the list gives the same
\* seekSequence, total and traces.
C22_HeadCopiesFree ==
  Done =>
    /\ ComputeSCAN(SelectSeq(requests, NotHead), headPos, direction,
                   maxCylinder) = output
    /\ \A p \in 0..Len(requests) :
         ComputeSCAN(InsertAt(requests, p, headPos), headPos, direction,
                     maxCylinder) = output

C22_Witness ==
  /\ Done
  /\ Len(requests) = 3
  /\ requests[2] = headPos
  /\ requests[1] > headPos
  /\ requests[3] < headPos
  /\ Len(output.seekSequence) = 4
  /\ ComputeSCAN(<<requests[1], requests[3]>>, headPos, direction,
                 maxCylinder) = output

\* the list s with its elements k and k + 1 exchanged
SwapAt(s, k) ==
  [j \in 1..Len(s) |-> IF j = k THEN s[k + 1] ELSE IF j = k + 1 THEN s[k]
                       ELSE s[j]]

\* C23: the result depends only on the multiset of requests: the list
\* arranged in ascending order (the same for every permutation of it) and
\* the list with any two neighbours exchanged (the exchanges that generate
\* every permutation) give the same seekSequence, total and traces.
C23_OrderIndependent ==
  Done =>
    /\ ComputeSCAN(SortAscendingRaw(requests), headPos, direction,
                   maxCylinder) = output
    /\ \A k \in 1..(Len(requests) - 1) :
         ComputeSCAN(SwapAt(requests, k), headPos, direction,
                     maxCylinder) = output

C23_Witness ==
  /\ Done
  /\ Len(requests) = 3
  /\ requests[1] > requests[2]
  /\ requests[2] < requests[3]
  /\ requests[1] # requests[3]
  /\ \A k \in 1..3 : requests[k] # headPos
  /\ ComputeSCAN(<<requests[3], requests[1], requests[2]>>, headPos,
                 direction, maxCylinder) = output

\* C24: the debug-logging draft and the canonical computeSCAN return, for
\* the same (requests, head, direction, maxCylinder), the same seekSequence,
\* the same total (totalSeekTime = totalOverheadMovement) and the same three
\* traces.
C24_DebugDraftEquivalent ==
  Done =>
    LET draft == DebugComputeSCAN(requests, headPos, direction, maxCylinder)
    IN  /\ draft.seekSequence = output.seekSequence
        /\ draft.totalSeekTime = output.totalOverheadMovement
        /\ draft.stepsExpression = output.stepsExpression
        /\ draft.stepsValues = output.stepsValues
        /\ draft.stepsDetailed = output.stepsDetailed

C24_Witness ==
  /\ Done
  /\ swept
  /\ HighCount >= 1
  /\ LowCount >= 1
  /\ Len(output.seekSequence) >= 4
  /\ DebugComputeSCAN(requests, headPos, direction,
                      maxCylinder).totalSeekTime
       = output.totalOverheadMovement
  /\ output.totalOverheadMovement > 0

\* C26: under the preconditions (head and all requests in
\* [0, maxCylinder]) the total has a closed form: to the right it is
\* (maxCylinder - head) + (maxCylinder - m), m the smallest request below
\* head, and maxCylinder - head when no request is below head; to the left
\* it is head + M, M the largest request above head, and head when no
\* request is above head. The total never exceeds 2 * maxCylinder.
C26_ClosedFormTotal ==
  (Done /\ Pre) =>
    /\ (direction = "right" /\ LowCount > 0) =>
         output.totalOverheadMovement =
           (maxCylinder - headPos) + (maxCylinder - SmallestRequest)
    /\ (direction = "right" /\ LowCount = 0) =>
         output.totalOverheadMovement = maxCylinder - headPos
    /\ (direction = "left" /\ HighCount > 0) =>
         output.totalOverheadMovement = headPos + LargestRequest
    /\ (direction = "left" /\ HighCount = 0) =>
         output.totalOverheadMovement = headPos
    /\ output.totalOverheadMovement <= 2 * maxCylinder

C26_Witness ==
  /\ Done /\ Pre
  /\ direction = "right"
  /\ HighCount >= 1
  /\ LowCount >= 2
  /\ headPos < maxCylinder
  /\ output.totalOverheadMovement =
       (maxCylinder - headPos) + (maxCylinder - SmallestRequest)
  /\ output.totalOverheadMovement > maxCylinder

\* C27: the last element of seekSequence is the smallest request below head
\* when the direction is "right" and one exists, the largest request above
\* head when the direction is "left" and one exists, and otherwise the
\* boundary of the direction (maxCylinder to the right, 0 to the left).
C27_FinalPosition ==
  Done =>
    LET last == output.seekSequence[Len(output.seekSequence)] IN
    IF direction = "right" /\ LowCount > 0 THEN last = SmallestRequest
    ELSE IF direction = "left" /\ HighCount > 0 THEN last = LargestRequest
    ELSE last = Boundary

C27_Witness ==
  /\ Done
  /\ direction = "left"
  /\ LowCount >= 1
  /\ swept
  /\ \E j, k \in 1..Len(requests) :
       requests[j] > headPos /\ requests[k] > requests[j]
  /\ output.seekSequence[Len(output.seekSequence)] = LargestRequest

\* what GENERATE has to leave in the fields
GeneratedOk ==
  LET tokens == SplitOnSpace(ui.requests)
      disk == TextValue(ui.diskSize)
      head == TextValue(ui.head)
  IN  /\ IsIntegerText(ui.diskSize)
      /\ disk \in 100..300
      /\ IsIntegerText(ui.head)
      /\ head \in 0..disk
      /\ Len(tokens) = 5
      /\ \A k \in 1..Len(tokens) :
           /\ IsIntegerText(tokens[k])
           /\ TextValue(tokens[k]) \in 1..disk
      /\ \A j, k \in 1..Len(tokens) :
           j # k => TextValue(tokens[j]) # TextValue(tokens[k])
      /\ ui.errors = NoErrors

\* C28: GENERATE leaves a disk size in [100, 300], a head in [0, disk
\* size] and exactly 5 pairwise distinct requests in [1, disk size] in the
\* fields, with no field error; its top-up loop comes to an end; and a
\* SOLVE pressed right after it passes validation and invokes onSolve.
C28_GenerateValid ==
  /\ [](lastClick = "generated" => (GeneratedOk /\ Validate(ui) = NoErrors))
  /\ [][(lastClick = "generated" /\ lastClick' # "generated") =>
          (lastClick' = "invoked" /\ ui'.isSolved)]_vars
  /\ (pc = "topup" ~> pc = "page")

C28_Witness ==
  /\ lastClick = "invoked"
  /\ ui.isSolved
  /\ ui.diskSize = <<"3", "0", "0">>
  /\ ui.head = <<"3", "0", "0">>
  /\ Len(ui.parsedRequests) = 5
  /\ ui.parsedRequests[1] = 300
  /\ ui.parsedRequests[5] = 1
  /\ ui.direction = "right"
  /\ ui.output[1].seekSequence = <<300, 4, 3, 2, 1>>

\* C25: after any sequence of edits and SOLVE clicks, every track of a seek
\* sequence shown in the output panel lies in [0, disk size]: no negative
\* track and no track above the disk size is displayed.
C25_DisplayedTracksInRange ==
  Displayed(ui) =>
    \A k \in 1..Len(ui.output[1].seekSequence) :
      ui.output[1].seekSequence[k] \in 0..DisplayedDiskSize(ui)

\* the tokens of the requests field that parse to a number
NumericTokens(u) ==
  LET Parses(t) == ~ParseInt(t).nan IN
  SelectSeq(RequestTokensOf(u), Parses)

\* C29: the average shown by OutputCard is totalOverheadMovement divided by
\* the number of parsed requests (duplicates and requests equal to head
\* counted, the boundary step not counted) when that number is > 0, and 0
\* when there are no requests; the divisor is never 0.
C29_AverageMovement ==
  LET n == Len(NumericTokens(ui))
      average == AverageOverheadMovement(ui)
  IN  /\ average.den # 0
      /\ Displayed(ui) =>
           /\ NumberOfRequests(ui) = n
           /\ n > 0 =>
                average.num * n =
                  ui.output[1].totalOverheadMovement * average.den
           /\ n = 0 => average.num = 0

C29_Witness ==
  /\ Displayed(ui)
  /\ ui.parsedRequests = <<1, 1>>
  /\ ui.head = <<"2">>
  /\ ui.output[1].seekSequence = <<2, 3, 1, 1>>
  /\ AverageOverheadMovement(ui) = [num |-> 3, den |-> 2]

\* C30: for every sequence computeSCAN returns with a disk size > 0,
\* allTracks contains 0 and the disk size and so has at least 2 distinct
\* entries (the divisor allTracks.length - 1 is not 0), every track of the
\* sequence is found in allTracks, and trackToX is strictly increasing in
\* the track number.
C30_ChartCoordinates ==
  (Done /\ maxCylinder > 0) =>
    LET allTracks == AllTracks(output.seekSequence, maxCylinder) IN
    /\ Includes(allTracks, 0)
    /\ Includes(allTracks, maxCylinder)
    /\ Len(allTracks) >= 2
    /\ \A j, k \in 1..Len(allTracks) : j # k => allTracks[j] # allTracks[k]
    /\ Len(allTracks) - 1 # 0
    /\ \A k \in 1..Len(output.seekSequence) :
         IndexOf(allTracks, output.seekSequence[k]) >= 0
    /\ \A j, k \in 1..Len(allTracks) :
         allTracks[j] < allTracks[k] =>
           LET a == TrackToX(allTracks, allTracks[j])
               b == TrackToX(allTracks, allTracks[k])
           IN  a.den > 0 /\ b.den > 0 /\ a.num * b.den < b.num * a.den

C30_Witness ==
  /\ Done
  /\ maxCylinder = 3
  /\ swept
  /\ Len(output.seekSequence) = 4
  /\ output.seekSequence[3] > output.seekSequence[4]
  /\ output.seekSequence[4] < 0
  /\ Len(AllTracks(output.seekSequence, maxCylinder)) = 5
  /\ TrackToX(AllTracks(output.seekSequence, maxCylinder),
              output.seekSequence[4]).num = padding * 4

====
